---- MODULE Spec2Model ----
(***************************************************************************)
(* The authentication-state manager (src/lib/supabaseAuth.ts) and the      *)
(* useAuth hook (src/hooks/useAuth.ts) as a state machine.                 *)
(*                                                                         *)
(* Every async operation is a task that suspends at each await.  One       *)
(* action is one turn of the event loop: the Auth Provider Client or the   *)
(* Profile Store answers the awaited call (out is its answer) and the code *)
(* runs on to the next await or to its return.  notifyListeners runs       *)
(* synchronously inside its turn: while its forEach is in progress only    *)
(* Deliver is enabled, and the operation that notified goes on when the    *)
(* forEach ends.                                                           *)
(***************************************************************************)
EXTENDS Integers, Sequences, FiniteSets, Bags, TLC

\* ---------------------------------------------------------------- bounds
MaxTasks == 2          \* async operations in flight at once
MaxListeners == 2      \* length of the listener list
MaxCalls == 3          \* calls from outside in a run: operations, subscribe,
                       \* unsubscribe, and the provider's own session events

\* ---------------------------------------------------------------- values
NULL == "null"                 \* JS null / undefined, where a string may stand
Absent == [absent |-> TRUE]    \* JS null / undefined, where an object may stand
Falsy == {NULL, ""}            \* the falsy values a string-or-null field can take

\* a || b
Or(a, b) == IF a \in Falsy THEN b ELSE a

Users == {"u1", "u2"}
Callbacks == {"L1", "L2"}

Email(u) == IF u = "u1" THEN "a@x.com" ELSE "b@x.com"

\* The provider's User object of an account: id, email, user_metadata.
ProviderUser(u) ==
    IF u = "u1"
    THEN [id |-> u, email |-> Email(u),
          meta |-> [full_name |-> "Ann", company |-> "Acme",
                    position |-> "Dev", phone |-> "111"]]
    ELSE [id |-> u, email |-> Email(u),
          meta |-> [full_name |-> "", company |-> NULL,
                    position |-> NULL, phone |-> NULL]]

\* The userData a caller passes to register for an account.
UserData(u) ==
    IF u = "u1"
    THEN [email |-> Email(u), name |-> "Ann", company |-> "Acme",
          position |-> "Dev", phone |-> "111", department |-> "sales"]
    ELSE [email |-> Email(u), name |-> "", company |-> "",
          position |-> "", phone |-> "", department |-> ""]

\* The profiles table before the program starts: u1 has a row, u2 has none.
StoredProfile(u) ==
    IF u = "u1"
    THEN [id |-> u, email |-> Email(u), full_name |-> "Ann", company |-> "Acme",
          position |-> NULL, phone |-> "111", role |-> "manager",
          department |-> "sales", avatar_url |-> NULL]
    ELSE Absent

\* The partial updates callers pass to updateProfile.
Updates ==
    { [role |-> "admin", phone |-> "999"],
      [name |-> "", department |-> NULL] }

\* updates.f (undefined when the field is absent)
Field(upd, f) == IF f \in DOMAIN upd THEN upd[f] ELSE NULL

\* { ...cur, ...upd }
Spread(cur, upd) ==
    [f \in DOMAIN cur |-> IF f \in DOMAIN upd THEN upd[f] ELSE cur[f]]

\* ----------------------------------------------------------------- state
VARIABLES
    authState,   \* SupabaseAuth.authState
    listeners,   \* SupabaseAuth.listeners
    broadcast,   \* the listeners notifyListeners' forEach has still to invoke
    notified,    \* the callbacks invoked with authState since it was last assigned
    invoked,     \* the callback the last step invoked (NULL: none)
    cancelled,   \* callbacks whose unsubscribe has returned and that were not subscribed again
    session,     \* the Auth Provider Client's current session user id
    watching,    \* the onAuthStateChange callback is registered
    profiles,    \* the Profile Store: user id -> row or Absent
    tasks,       \* the async operations in flight (a bag of tasks)
    ret,         \* the operation that returned in the last step, and its result
    loading,     \* useAuth's loading flag
    calls,       \* the calls from outside so far (bounded by MaxCalls)
    signedOut    \* a sign-out was carried out (SIGNED_OUT handled or logout
                 \* cleared the state) and no login, register or signed-in
                 \* event was started since

vars == <<authState, listeners, broadcast, notified, invoked, cancelled,
          session, watching, profiles, tasks, ret, loading, calls, signedOut>>

EmptyState == [user |-> Absent, isAuthenticated |-> FALSE, isOnboardingComplete |-> FALSE]

\* A task: the operation, the await it is suspended at, the session user it
\* is about, updateProfile's currentUser and updates, the answer of the last
\* awaited call, and whether register's insert reported an error.
NewTask(op, pc, u) ==
    [op |-> op, pc |-> pc, user |-> u, cur |-> Absent, upd |-> Absent,
     res |-> "pending", insErr |-> FALSE]

NoRet == [op |-> "none"]

Range(s) == {s[i] : i \in 1..Len(s)}

Init ==
    /\ authState = EmptyState
    /\ listeners = <<>>
    /\ broadcast = <<>>
    /\ notified = {}
    /\ invoked = NULL
    /\ cancelled = {}
    /\ session \in Users \cup {NULL}
    /\ watching = FALSE
    /\ profiles = [u \in Users |-> StoredProfile(u)]
    /\ tasks = SetToBag({NewTask("init", "getSession", NULL)})
    /\ ret = NoRet
    /\ loading = FALSE
    /\ calls = 0
    /\ signedOut = FALSE

\* ------------------------------------------------------- setUserFromSession
\* Mutant: the name is the row's full_name, with no fallback to the email.
UserFromProfileNoFallback(profile, user) ==
    [id |-> profile.id,
     email |-> profile.email,
     name |-> Or(profile.full_name, ""),
     company |-> Or(profile.company, ""),
     position |-> Or(profile.position, ""),
     phone |-> Or(profile.phone, ""),
     role |-> profile.role,
     department |-> profile.department,
     avatar_url |-> profile.avatar_url]

\* The AuthUser derived from a profile row (name falls back to the session email).
UserFromProfile(profile, user) ==
    [id |-> profile.id,
     email |-> profile.email,
     name |-> Or(Or(profile.full_name, user.email), ""),
     company |-> Or(profile.company, ""),
     position |-> Or(profile.position, ""),
     phone |-> Or(profile.phone, ""),
     role |-> profile.role,
     department |-> profile.department,
     avatar_url |-> profile.avatar_url]

\* The provisional AuthUser derived from the session's metadata alone.
UserFromMetadata(user) ==
    [id |-> user.id,
     email |-> Or(user.email, ""),
     name |-> Or(Or(user.meta.full_name, user.email), ""),
     company |-> Or(user.meta.company, ""),
     position |-> Or(user.meta.position, ""),
     phone |-> Or(user.meta.phone, ""),
     role |-> "user",
     department |-> NULL,
     avatar_url |-> NULL]

\* The answer of the select-by-id on a table row: the row ("found"), the
\* not-found code PGRST116 ("notfound"), another error or a throw.
QueryResult(row, out) ==
    IF out # "data" THEN out ELSE IF row = Absent THEN "notfound" ELSE "found"

\* Mutant: every reported error is taken for the not-found code.
ResolvesOnAnyError(res) == res # "throw"

\* The answers after which setUserFromSession stores a state; it returns
\* early on any other error and catches a throw.
Resolves(res) == res \in {"found", "notfound"}

\* Mutant: the profile branch leaves out isOnboardingComplete.
ResolvedStateProfileNotOnboarded(res, profile, user) ==
    IF res = "found"
    THEN [user |-> UserFromProfile(profile, user),
          isAuthenticated |-> TRUE, isOnboardingComplete |-> FALSE]
    ELSE [user |-> UserFromMetadata(user),
          isAuthenticated |-> TRUE, isOnboardingComplete |-> FALSE]

\* Mutant: the metadata branch copies the profile branch's flags.
ResolvedStateAlwaysOnboarded(res, profile, user) ==
    IF res = "found"
    THEN [user |-> UserFromProfile(profile, user),
          isAuthenticated |-> TRUE, isOnboardingComplete |-> TRUE]
    ELSE [user |-> UserFromMetadata(user),
          isAuthenticated |-> TRUE, isOnboardingComplete |-> TRUE]

\* The state setUserFromSession stores for the query's answer.
ResolvedState(res, profile, user) ==
    IF res = "found"
    THEN [user |-> UserFromProfile(profile, user),
          isAuthenticated |-> TRUE, isOnboardingComplete |-> TRUE]
    ELSE [user |-> UserFromMetadata(user),
          isAuthenticated |-> TRUE, isOnboardingComplete |-> FALSE]

\* Mutant: clearAuthState resets user and isAuthenticated only.
ClearedStateKeepsOnboarding == [authState EXCEPT !.user = Absent, !.isAuthenticated = FALSE]

\* clearAuthState's assignment.
ClearedState == EmptyState

\* ------------------------------------------------------------ updateProfile
\* The fields updateProfile sends to the Profile Store.
UpdatePayload(cur, upd) ==
    [full_name |-> Or(Field(upd, "name"), cur.name),
     role |-> Or(Field(upd, "role"), cur.role),
     department |-> Or(Field(upd, "department"), cur.department),
     avatar_url |-> Or(Field(upd, "avatar_url"), cur.avatar_url)]

\* The row after the store applied a payload to it.
UpdatedRow(row, payload) ==
    [f \in DOMAIN row |-> IF f \in DOMAIN payload THEN payload[f] ELSE row[f]]

\* Mutant: the local merge is done before the store's error is looked at.
StateAfterUpdateUnchecked(state, cur, upd, res) ==
    [state EXCEPT !.user = Spread(cur, upd)]

\* authState after updateProfile's await: the local merge when the store
\* reported no error, else untouched.
StateAfterUpdate(state, cur, upd, res) ==
    IF res = "ok" THEN [state EXCEPT !.user = Spread(cur, upd)] ELSE state

\* The row register inserts for the user the provider created.
InsertedRow(u, d) ==
    [id |-> u, email |-> d.email, full_name |-> d.name, company |-> d.company,
     position |-> d.position, phone |-> d.phone, role |-> "user",
     department |-> d.department, avatar_url |-> NULL]

\* ------------------------------------------------------------------ tasks
InFlight == BagToSet(tasks)
Room == BagCardinality(tasks) < MaxTasks
Started(r) == tasks (+) SetToBag({r})
Ended(r) == tasks (-) SetToBag({r})
Moved(r, r2) == (tasks (-) SetToBag({r})) (+) SetToBag({r2})

\* No turn of the event loop is in progress: no forEach of notifyListeners
\* is running and no logout is between its signOut and its clearAuthState.
Quiet == broadcast = <<>> /\ \A r \in InFlight : r.pc # "signedOut"
Awaits(r, pc) == Quiet /\ r \in InFlight /\ r.pc = pc

\* The operations the hook wraps; initializeAuth and the provider callback
\* run outside it.
Wrapped(op) == op \notin {"init", "event"}

\* The hook's setLoading(false) in the finally block around the call.
LoadingAtReturn(op) == IF Wrapped(op) THEN FALSE ELSE loading

\* Mutant: resetPassword awaits the provider outside any try block.
EscapesResetPassword(op, out) == op = "resetPassword" /\ out = "throw"

\* Whether an exception thrown by the call operation op awaited escapes to
\* op's caller: the body of every public operation is one try block whose
\* catch returns a failure, and setUserFromSession catches its own.
Escapes(op, out) == FALSE

\* The operation of task r returns (r2: the task as it ends) or, when the
\* exception of its last awaited call escapes, rejects.
Return(r, r2, ok, data) ==
    /\ tasks' = Ended(r)
    /\ ret' = [op |-> r2.op, task |-> r2, success |-> ok, data |-> data,
               raised |-> Escapes(r2.op, r2.res)]
    /\ loading' = LoadingAtReturn(r2.op)

\* What follows setUserFromSession, clearAuthState or updateProfile's local
\* merge in task r: the operation returns success; initializeAuth registers
\* the provider callback.
Complete(r, r2) ==
    /\ Return(r, r2, TRUE, IF r2.op = "updateProfile"
                           THEN Spread(r2.cur, r2.upd) ELSE Absent)
    /\ watching' = (watching \/ r2.op = "init")

\* Mutant: notifyListeners invokes nobody.
NotifyNobody(r, r2) ==
    /\ broadcast' = <<>>
    /\ Complete(r, r2)

\* notifyListeners, called in task r: forEach over the array the list is now.
NotifyListeners(r, r2) ==
    IF listeners = <<>>
    THEN /\ broadcast' = <<>>
         /\ Complete(r, r2)
    ELSE /\ broadcast' = listeners
         /\ tasks' = Moved(r, [r2 EXCEPT !.pc = "notify"])
         /\ ret' = NoRet
         /\ UNCHANGED <<watching, loading>>

\* -------------------------------------------------------------- listeners
\* Mutant: the filter keeps the listener and drops the others.
WithoutOthers(list, l) == SelectSeq(list, LAMBDA x : x = l)

\* this.listeners.filter(l => l !== listener)
Without(list, l) == SelectSeq(list, LAMBDA x : x # l)

\* The callbacks for which subscribe has returned an unsubscribe function.
UnsubFns == Range(listeners) \cup cancelled

Subscribe(l) ==
    /\ Quiet
    /\ calls < MaxCalls
    /\ calls' = calls + 1
    /\ UNCHANGED signedOut
    /\ Len(listeners) < MaxListeners
    /\ listeners' = Append(listeners, l)
    /\ cancelled' = cancelled \ {l}
    /\ invoked' = NULL
    /\ ret' = NoRet
    /\ UNCHANGED <<authState, broadcast, notified, session, watching, profiles,
                   tasks, loading>>

\* The function subscribe(l) returned is called between two turns.
Unsubscribe(l) ==
    /\ Quiet
    /\ calls < MaxCalls
    /\ calls' = calls + 1
    /\ UNCHANGED signedOut
    /\ l \in UnsubFns
    /\ listeners' = Without(listeners, l)
    /\ cancelled' = cancelled \cup {l}
    /\ invoked' = NULL
    /\ ret' = NoRet
    /\ UNCHANGED <<authState, broadcast, notified, session, watching, profiles,
                   tasks, loading>>

\* One iteration of notifyListeners' forEach: the next listener of the array
\* is invoked with the current state.  The listener takes the state; it may
\* also call an unsubscribe function (its own or another subscriber's).
Deliver ==
    /\ broadcast # <<>>
    /\ notified' = notified \cup {Head(broadcast)}
    /\ invoked' = Head(broadcast)
    /\ UNCHANGED <<calls, signedOut>>
    /\ \/ UNCHANGED <<listeners, cancelled>>
       \/ \E c \in UnsubFns :
            /\ listeners' = Without(listeners, c)
            /\ cancelled' = cancelled \cup {c}
    /\ broadcast' = Tail(broadcast)
    /\ IF Tail(broadcast) = <<>> /\ \E r \in InFlight : r.pc = "notify"
       THEN LET r == CHOOSE x \in InFlight : x.pc = "notify" IN Complete(r, r)
       ELSE /\ ret' = NoRet
            /\ UNCHANGED <<tasks, watching, loading>>
    /\ UNCHANGED <<authState, session, profiles>>

\* -------------------------------------------------- provider session events
\* The onAuthStateChange callback on SIGNED_IN with user u: it calls
\* setUserFromSession(u), which sends the profile query and suspends.
OnSignedIn(tk, u) ==
    IF watching THEN tk (+) SetToBag({NewTask("event", "query", u)}) ELSE tk

\* Room for the callback's task, when the callback is registered.
CanSignal == watching => Room

\* The provider signs a user in on its own (another tab, a redirect).
ProviderSignedIn(u) ==
    /\ Quiet
    /\ calls < MaxCalls
    /\ calls' = calls + 1
    /\ CanSignal
    /\ session' = u
    /\ signedOut' = FALSE
    /\ tasks' = OnSignedIn(tasks, u)
    /\ invoked' = NULL
    /\ ret' = NoRet
    /\ UNCHANGED <<authState, listeners, broadcast, notified, cancelled,
                   watching, profiles, loading>>

\* The onAuthStateChange callback on SIGNED_OUT: clearAuthState.
OnSignedOut ==
    IF watching
    THEN /\ authState' = ClearedState
         /\ notified' = {}
         /\ broadcast' = listeners
         /\ signedOut' = TRUE
    ELSE UNCHANGED <<authState, notified, broadcast, signedOut>>

\* The provider ends the session on its own (expiry, another tab).
ProviderSignedOut ==
    /\ Quiet
    /\ calls < MaxCalls
    /\ calls' = calls + 1
    /\ session # NULL
    /\ session' = NULL
    /\ OnSignedOut
    /\ invoked' = NULL
    /\ ret' = NoRet
    /\ UNCHANGED <<listeners, cancelled, watching, profiles, tasks, loading>>

\* ------------------------------------------------------------ initializeAuth
\* getSession answers with the current session: initializeAuth resolves its
\* user if there is one, else registers the provider callback at once.
InitializeAuth(r) ==
    /\ Awaits(r, "getSession")
    /\ IF session # NULL
       THEN /\ tasks' = Moved(r, [r EXCEPT !.pc = "query", !.user = session])
            /\ ret' = NoRet
            /\ UNCHANGED <<watching, loading>>
       ELSE Complete(r, r)
    /\ invoked' = NULL
    /\ UNCHANGED <<calls, signedOut>>
    /\ UNCHANGED <<authState, listeners, broadcast, notified, cancelled,
                   session, profiles>>

\* -------------------------------------------------------- setUserFromSession
\* The Profile Store answers the select-by-id; setUserFromSession stores the
\* resolved state and notifies, or aborts; then its caller goes on.
SetUserFromSession(r, out) ==
    /\ Awaits(r, "query")
    /\ LET res == QueryResult(profiles[r.user], out)
           r2 == [r EXCEPT !.res = res] IN
       IF Resolves(res)
       THEN /\ authState' = ResolvedState(res, profiles[r.user], ProviderUser(r.user))
            /\ notified' = {}
            /\ NotifyListeners(r, r2)
       ELSE /\ Complete(r, r2)
            /\ UNCHANGED <<authState, notified, broadcast>>
    /\ invoked' = NULL
    /\ UNCHANGED <<calls, signedOut>>
    /\ UNCHANGED <<listeners, cancelled, session, profiles>>

\* ----------------------------------------------------- login and register
\* An operation is called through the hook (setLoading(true)) and runs to
\* its first await.
Start(r) ==
    /\ Quiet
    /\ calls < MaxCalls
    /\ calls' = calls + 1
    /\ Room
    /\ tasks' = Started(r)
    /\ loading' = TRUE
    /\ signedOut' = (signedOut /\ r.op \notin {"login", "register"})
    /\ invoked' = NULL
    /\ ret' = NoRet
    /\ UNCHANGED <<authState, listeners, broadcast, notified, cancelled,
                   session, watching, profiles>>

StartLogin(u) == Start(NewTask("login", "signIn", u))

StartRegister(u) == Start(NewTask("register", "signUp", u))

\* signInWithPassword (login) or signUp (register) answers: a user (the
\* session starts and SIGNED_IN is emitted; login resolves the user, register
\* inserts the profile row), an error, neither, or the call throws.
SignIn(r, out) ==
    /\ Awaits(r, "signIn") \/ Awaits(r, "signUp")
    /\ IF out = "ok"
       THEN /\ CanSignal
            /\ session' = r.user
            /\ signedOut' = FALSE
            /\ tasks' = OnSignedIn(Moved(r, [r EXCEPT !.pc = IF r.op = "login"
                                                           THEN "query" ELSE "insert"]),
                                   r.user)
            /\ ret' = NoRet
            /\ UNCHANGED loading
       ELSE /\ Return(r, [r EXCEPT !.res = out], FALSE, Absent)
            /\ UNCHANGED <<session, signedOut>>
    /\ invoked' = NULL
    /\ UNCHANGED calls
    /\ UNCHANGED <<authState, listeners, broadcast, notified, cancelled,
                   watching, profiles>>

\* The Profile Store answers register's insert: the row is stored (no row of
\* that id existed), an error is reported (it is only logged), or the call
\* throws.  register then resolves the user.
InsertProfile(r, out) ==
    /\ Awaits(r, "insert")
    /\ IF out = "ok"
       THEN /\ profiles[r.user] = Absent
            /\ profiles' = [profiles EXCEPT ![r.user] = InsertedRow(r.user, UserData(r.user))]
       ELSE UNCHANGED profiles
    /\ IF out = "throw"
       THEN Return(r, [r EXCEPT !.res = out], FALSE, Absent)
       ELSE /\ tasks' = Moved(r, [r EXCEPT !.pc = "query", !.insErr = (out = "error")])
            /\ ret' = NoRet
            /\ UNCHANGED loading
    /\ invoked' = NULL
    /\ UNCHANGED <<calls, signedOut>>
    /\ UNCHANGED <<authState, listeners, broadcast, notified, cancelled,
                   session, watching>>

\* -------------------------------------------------------------------- logout
StartLogout == Start(NewTask("logout", "signOut", NULL))

\* signOut answers: the session is ended (SIGNED_OUT is emitted to the
\* registered callback), an error is reported, or the call throws; on
\* either of the last two logout returns failure.
SignOut(r, out) ==
    /\ Awaits(r, "signOut")
    /\ IF out = "ok"
       THEN /\ session' = NULL
            /\ OnSignedOut
            /\ tasks' = Moved(r, [r EXCEPT !.pc = "signedOut", !.res = out])
            /\ ret' = NoRet
            /\ UNCHANGED loading
       ELSE /\ Return(r, [r EXCEPT !.res = out], FALSE, Absent)
            /\ UNCHANGED <<session, authState, notified, broadcast, signedOut>>
    /\ invoked' = NULL
    /\ UNCHANGED calls
    /\ UNCHANGED <<listeners, cancelled, watching, profiles>>

\* logout after signOut answered without an error, once the callback's
\* notification is over: clearAuthState, return success.
Logout(r) ==
    /\ broadcast = <<>>
    /\ r \in InFlight
    /\ r.pc = "signedOut"
    /\ authState' = ClearedState
    /\ notified' = {}
    /\ NotifyListeners(r, r)
    /\ invoked' = NULL
    /\ signedOut' = TRUE
    /\ UNCHANGED calls
    /\ UNCHANGED <<listeners, cancelled, session, profiles>>

\* ------------------------------------------------------------- updateProfile
\* updateProfile up to its await: without a current user it returns failure
\* at once; else it sends the update of the current user's row.
StartUpdateProfile(upd) ==
    /\ Quiet
    /\ calls < MaxCalls
    /\ calls' = calls + 1
    /\ UNCHANGED signedOut
    /\ Room
    /\ LET r == [NewTask("updateProfile", "update", NULL)
                    EXCEPT !.cur = authState.user, !.upd = upd] IN
       IF authState.user = Absent
       THEN /\ ret' = [op |-> r.op, task |-> [r EXCEPT !.pc = "start"],
                       success |-> FALSE, data |-> Absent,
                       raised |-> FALSE]
            /\ loading' = LoadingAtReturn(r.op)
            /\ UNCHANGED tasks
       ELSE /\ tasks' = Started(r)
            /\ loading' = TRUE
            /\ ret' = NoRet
    /\ invoked' = NULL
    /\ UNCHANGED <<authState, listeners, broadcast, notified, cancelled,
                   session, watching, profiles>>

\* The Profile Store answers the update (.eq(id).select().single()): the row
\* is updated and returned, an error is reported (always when no row has
\* that id), or the call throws.  updateProfile merges locally and notifies,
\* or returns failure.
UpdateProfile(r, out) ==
    /\ Awaits(r, "update")
    /\ IF out = "ok"
       THEN /\ profiles[r.cur.id] # Absent
            /\ profiles' = [profiles EXCEPT ![r.cur.id] =
                               UpdatedRow(profiles[r.cur.id], UpdatePayload(r.cur, r.upd))]
       ELSE UNCHANGED profiles
    /\ authState' = StateAfterUpdate(authState, r.cur, r.upd, out)
    /\ IF out = "ok"
       THEN /\ notified' = {}
            /\ NotifyListeners(r, [r EXCEPT !.res = out])
       ELSE /\ Return(r, [r EXCEPT !.res = out], FALSE, Absent)
            /\ UNCHANGED <<notified, broadcast, watching>>
    /\ invoked' = NULL
    /\ UNCHANGED <<calls, signedOut>>
    /\ UNCHANGED <<listeners, cancelled, session>>

\* ------------------------------------------------------------- resetPassword
StartResetPassword == Start(NewTask("resetPassword", "reset", NULL))

\* Mutant: a successful reset request ends the local session state.
ResetPasswordClears(r, out) ==
    /\ Awaits(r, "reset")
    /\ Return(r, [r EXCEPT !.res = out], out = "ok", Absent)
    /\ authState' = IF out = "ok" THEN ClearedState ELSE authState
    /\ invoked' = NULL
    /\ UNCHANGED <<calls, signedOut>>
    /\ UNCHANGED <<listeners, broadcast, notified, cancelled,
                   session, watching, profiles>>

\* resetPasswordForEmail answers: done, an error, or the call throws.
ResetPassword(r, out) ==
    /\ Awaits(r, "reset")
    /\ Return(r, [r EXCEPT !.res = out], out = "ok", Absent)
    /\ invoked' = NULL
    /\ UNCHANGED <<calls, signedOut>>
    /\ UNCHANGED <<authState, listeners, broadcast, notified, cancelled,
                   session, watching, profiles>>

\* ------------------------------------------------------------- specification
Answers == {"ok", "error", "throw"}

Next ==
    \/ \E l \in Callbacks : Subscribe(l)
    \/ \E l \in Callbacks : Unsubscribe(l)
    \/ Deliver
    \/ \E u \in Users : ProviderSignedIn(u)
    \/ ProviderSignedOut
    \/ \E r \in InFlight : InitializeAuth(r)
    \/ \E r \in InFlight, out \in {"data", "error", "throw"} : SetUserFromSession(r, out)
    \/ \E u \in Users : StartLogin(u)
    \/ \E u \in Users : StartRegister(u)
    \/ \E r \in InFlight, out \in Answers \cup {"nouser"} : SignIn(r, out)
    \/ \E r \in InFlight, out \in Answers : InsertProfile(r, out)
    \/ StartLogout
    \/ \E r \in InFlight, out \in Answers : SignOut(r, out)
    \/ \E r \in InFlight : Logout(r)
    \/ \E upd \in Updates : StartUpdateProfile(upd)
    \/ \E r \in InFlight, out \in Answers : UpdateProfile(r, out)
    \/ StartResetPassword
    \/ \E r \in InFlight, out \in Answers : ResetPassword(r, out)

Spec == Init /\ [][Next]_vars

\* ===================================================================== claims
\* The four persisted AuthUser fields and the profiles column of each.
Column(f) == IF f = "name" THEN "full_name" ELSE f
PersistedFields == {"name", "role", "department", "avatar_url"}

\* C1: isAuthenticated is true exactly when user is present, in every
\* reachable state (stated as claimed; the code violates it when an
\* updateProfile resumes after the state was cleared).
C1_AuthenticatedIffUser ==
    authState.isAuthenticated = (authState.user # Absent)

\* C2: whenever isAuthenticated is true, user.id is the id of the provider's
\* current session user (stated as claimed; the code violates it).
C2_IdMatchesSession ==
    authState.isAuthenticated => authState.user.id = session

\* C3: logout returns success exactly when signOut reported no error; then
\* the state is the empty default and every registered listener has been
\* invoked with it; on failure the step changed neither the state nor
\* invoked any listener.
C3_Logout ==
    [][ret'.op = "logout" =>
          /\ ret'.success = (ret'.task.res = "ok")
          /\ ret'.success =>
                /\ authState' = EmptyState
                /\ broadcast' = <<>>
                /\ Range(listeners') \subseteq notified'
          /\ ~ret'.success =>
                /\ authState' = authState
                /\ notified' = notified
                /\ broadcast' = broadcast
                /\ invoked' = NULL]_vars

C3_Witness ==
    /\ ret.op = "logout"
    /\ ret.success
    /\ listeners # <<>>
    /\ invoked # NULL

\* C4: a callback whose unsubscribe function has returned is not invoked
\* again (stated as claimed; the code violates it when the unsubscribe is
\* called during a forEach that has not reached the callback yet).
C4_NoCallAfterUnsubscribe ==
    [][invoked' # NULL => invoked' \notin cancelled]_vars

\* C5: when the provider callback's resolution of a SIGNED_IN event for user
\* U completes, the store holding a row for U.id and the query not failing,
\* the state is authenticated, onboarding complete, with user.id = U.id.
C5_SignedInWithProfile ==
    (/\ ret.op = "event"
     /\ profiles[ret.task.user] # Absent
     /\ ret.task.res \notin {"error", "throw"})
    => /\ authState.isAuthenticated
       /\ authState.isOnboardingComplete
       /\ authState.user.id = ret.task.user

C5_Witness ==
    /\ ret.op = "event"
    /\ profiles[ret.task.user] # Absent
    /\ ret.task.res = "found"

\* C6: when the provider callback's resolution of a SIGNED_IN event for user
\* U completes, the store holding no row for U.id (the query reported the
\* not-found code), the state is authenticated, onboarding not complete,
\* with user.id = U.id, role "user", no department and no avatar_url.
C6_SignedInWithoutProfile ==
    (/\ ret.op = "event"
     /\ profiles[ret.task.user] = Absent
     /\ ret.task.res \notin {"error", "throw"})
    => /\ authState.isAuthenticated
       /\ ~authState.isOnboardingComplete
       /\ authState.user.id = ret.task.user
       /\ authState.user.role = "user"
       /\ authState.user.department = NULL
       /\ authState.user.avatar_url = NULL

C6_Witness ==
    /\ ret.op = "event"
    /\ profiles[ret.task.user] = Absent
    /\ ret.task.res = "notfound"

\* C7: when register returns after signUp gave a user and the profile insert
\* reported an error, it returns success and the state is authenticated for
\* that user (stated as claimed; the code violates it).
C7_RegisterDespiteInsertError ==
    (ret.op = "register" /\ ret.task.insErr)
    => /\ ret.success
       /\ authState.isAuthenticated
       /\ authState.user.id = ret.task.user

\* C8: updateProfile returns failure exactly when there is no current user
\* or the store's update reported an error or threw; the returning step
\* then changed no state and invoked no listener, and without a current
\* user it sent no update to the store.
C8_UpdateProfileFailure ==
    [][ret'.op = "updateProfile" =>
          /\ ret'.success =
                (ret'.task.cur # Absent /\ ret'.task.res \notin {"error", "throw"})
          /\ ~ret'.success =>
                /\ authState' = authState
                /\ notified' = notified
                /\ broadcast' = broadcast
                /\ invoked' = NULL
                /\ ret'.task.cur = Absent => (profiles' = profiles /\ tasks' = tasks)]_vars

C8_Witness ==
    /\ ret.op = "updateProfile"
    /\ ~ret.success
    /\ ret.task.res = "error"
    /\ authState.user # Absent
    /\ listeners # <<>>

\* C9: when updateProfile returns success, each of the four persisted fields
\* holds in the store the value given in the updates when the field is
\* present there, the current user's value when it is absent, and that is
\* the field's value in the returned user (stated as claimed; the code
\* violates it for a field given as "" or null).
C9_PersistedIsMerged ==
    (ret.op = "updateProfile" /\ ret.success)
    => \A f \in PersistedFields :
          LET stored == profiles[ret.task.cur.id][Column(f)] IN
          /\ stored = IF f \in DOMAIN ret.task.upd
                      THEN ret.task.upd[f] ELSE ret.task.cur[f]
          /\ stored = ret.data[f]

\* C10: the hook's loading flag is true exactly when a call started through
\* the hook is in flight (stated as claimed; the code violates it when two
\* calls overlap).
C10_LoadingIffInFlight ==
    loading = (\E r \in InFlight : Wrapped(r.op))

\* The public operations of the manager.
PublicOps == {"login", "register", "logout", "updateProfile", "resetPassword"}

\* The awaits of the public operations outside profile resolution.
OwnAwaits == {"signIn", "signUp", "insert", "signOut", "update", "reset"}

\* C11 as claimed: a public operation never raises, and returns failure
\* whenever the provider or the store reported an error or threw at any of
\* its steps other than profile resolution (the code returns success from
\* register when the profile insert reported an error).
C11_FailureOnAnyError ==
    ret.op \in PublicOps
    => /\ ~ret.raised
       /\ (\/ ret.task.insErr
           \/ ret.task.pc \in OwnAwaits /\ ret.task.res \in {"error", "throw"})
          => ~ret.success

\* C11, amended: a public operation never raises; it returns failure exactly
\* when one of its own provider or store calls threw, when a call other than
\* register's insert reported an error or no user, or when updateProfile
\* found no current user; an insert error and any failure of the profile
\* resolution inside login and register leave the result a success.
C11_FailureOnOwnError ==
    ret.op \in PublicOps
    => /\ ~ret.raised
       /\ ret.success = ~(\/ ret.task.pc = "start"
                          \/ /\ ret.task.pc \in OwnAwaits
                             /\ ret.task.res \in {"error", "throw", "nouser"})

C11_Witness ==
    /\ ret.op = "register"
    /\ ret.task.insErr
    /\ ret.task.res = "throw"
    /\ ret.success

Resolvers == {"init", "event", "login", "register"}

\* C13: when the profile query of setUserFromSession fails with an error
\* other than the not-found code (or throws), the step in which its caller
\* goes on leaves authState and the listener list as they were and invokes
\* no listener, whichever of initializeAuth, the signed-in callback, login
\* and register called it.
C13_AbortLeavesState ==
    [][(/\ ret'.op \in Resolvers
        /\ ret'.task.pc \in {"query", "notify"}
        /\ ret'.task.res \in {"error", "throw"})
       => /\ authState' = authState
          /\ listeners' = listeners
          /\ notified' = notified
          /\ broadcast' = broadcast
          /\ invoked' = NULL]_vars

C13_Witness ==
    /\ ret.op \in Resolvers
    /\ ret.task.pc = "query"
    /\ ret.task.res = "error"
    /\ authState.isAuthenticated
    /\ authState.user.id # ret.task.user
    /\ listeners # <<>>

\* C14: a step that changes authState starts, in that same step, one
\* notification of the listeners registered at that moment; until it is
\* over every step invokes the next of them in registration order with the
\* unchanged new state, no operation returns or runs in between, and no
\* listener is invoked outside a notification; when it is over every
\* listener still registered has received the current state.
C14_NotifyAfterChange ==
    [][/\ authState' # authState
          => (broadcast = <<>> /\ broadcast' = listeners /\ listeners' = listeners)
       /\ broadcast # <<>>
          => /\ invoked' = Head(broadcast)
             /\ broadcast' = Tail(broadcast)
             /\ authState' = authState
             /\ calls' = calls
       /\ broadcast = <<>> => invoked' = NULL
       /\ ret'.op # "none" => broadcast' = <<>>
       /\ (broadcast # <<>> /\ broadcast' = <<>>)
          => Range(listeners') \subseteq notified']_vars

C14_Witness ==
    /\ broadcast = <<>>
    /\ invoked # NULL
    /\ Len(listeners) = 2
    /\ listeners[1] # listeners[2]
    /\ Range(listeners) \subseteq notified
    /\ authState.isAuthenticated
    /\ ret.op # "none"

\* C15 as claimed, for a signed-in event e1 followed by a signed-out event
\* e2: the callback handles each event when it is emitted, so after e2 the
\* session is null and e2's clear has been applied; the state e2 produced is
\* not overwritten by e1's resolution, that is, no signed-in event's
\* resolution stores its state while the session is null (the code stores
\* it whenever e1's profile query answers, also after e2).
C15_EventMutationsInOrder ==
    (ret.op = "event" /\ ret.task.res \in {"found", "notfound"})
    => session # NULL

\* list with its i-th entry taken out.
RemoveAt(list, i) ==
    [j \in 1..(Len(list) - 1) |-> IF j < i THEN list[j] ELSE list[j + 1]]

\* The positions of list not holding l, and the j-th of a set of positions.
Kept(list, l) == {i \in 1..Len(list) : list[i] # l}
Nth(S, j) == CHOOSE i \in S : Cardinality({k \in S : k <= i}) = j

ResetTask == NewTask("resetPassword", "reset", NULL)

\* C17: the two steps of a resetPassword call (up to its await, and from the
\* provider's answer to its return, whatever the answer) leave authState and
\* the listener list unchanged and invoke no listener.  (The accessors
\* getAuthState, getCurrentUser and isAuthenticated are the reads of
\* authState used throughout; they assign nothing.)
C17_ResetPasswordFrame ==
    [][(\/ ret'.op = "resetPassword"
        \/ CopiesIn(ResetTask, tasks') > CopiesIn(ResetTask, tasks))
       => /\ authState' = authState
          /\ listeners' = listeners
          /\ broadcast' = broadcast
          /\ notified' = notified
          /\ invoked' = NULL]_vars

C17_Witness ==
    /\ ret.op = "resetPassword"
    /\ ret.success
    /\ authState.isAuthenticated
    /\ listeners # <<>>

\* C18 as claimed: once a sign-out was carried out and no login, register or
\* signed-in event was started since, authState is the empty default (the
\* code lets a profile resolution or an updateProfile that was in flight at
\* the sign-out store a user afterwards).
C18_SignOutIsFinal ==
    signedOut => authState = EmptyState

\* C19 as claimed: when login or register returns success for provider user
\* U and it was the only call made from outside (no other operation, no
\* provider event of its own), the state is authenticated with user.id =
\* U.id, whatever the profile query answered (the code returns success also
\* when the resolution aborted on a query error and stored nothing).
C19_SuccessMeansAuthenticated ==
    (ret.op \in {"login", "register"} /\ ret.success /\ calls = 1)
    => /\ authState.isAuthenticated
       /\ authState.user.id = ret.task.user

====
